---- MODULE Spec2Model ----
(***************************************************************************)
(* A model of mypythontools: the path module (paths.py: set_root,          *)
(* set_paths, find_path) and the release utilities (utils.py: set_version, *)
(* get_version, sphinx_docs_regenerate, push_pipeline).                    *)
(*                                                                         *)
(* Text is modelled character by character: a string is a sequence of      *)
(* one-character strings, a file is the sequence of its characters.        *)
(* A filesystem path is the sequence of its components; None is <<>>.      *)
(* utils.py reads the path triple of paths.py under the names ROOT_PATH,   *)
(* APP_PATH and INIT_PATH; the model has one triple root_path, app_path,   *)
(* init_path, the module globals of paths.py.                              *)
(***************************************************************************)
EXTENDS Integers, Sequences, FiniteSets, TLC

VARIABLES
    root_path,  \* paths.py global: the project root, <<>> when None
    app_path,   \* paths.py global: parent directory of init_path
    init_path,  \* paths.py global: path of the __init__.py
    sys_path,   \* sys.path: sequence of posix path strings (as paths)
    tree,       \* the filesystem: the set of paths of its files
    init_file,  \* the characters of the file at init_path
    source_dir, \* the entries directly under docs/source
    calls,      \* observation: the calls made so far, with their outcome
    hist,       \* observation: the state a call started from
    pl          \* the running push_pipeline: arguments, position, steps done

vars == <<root_path, app_path, init_path, sys_path, tree, init_file,
          source_dir, calls, hist, pl>>

-----------------------------------------------------------------------------
(* Python str and list operations used by utils.py *)

DQ == "\""
SQ == "'"
NL == "\n"

Digit == {"0", "1", "2", "3", "4", "5", "6", "7", "8", "9"}

DigitVal(c) ==
    CASE c = "0" -> 0 [] c = "1" -> 1 [] c = "2" -> 2 [] c = "3" -> 3
      [] c = "4" -> 4 [] c = "5" -> 5 [] c = "6" -> 6 [] c = "7" -> 7
      [] c = "8" -> 8 [] c = "9" -> 9

DigitChar(n) ==
    CASE n = 0 -> "0" [] n = 1 -> "1" [] n = 2 -> "2" [] n = 3 -> "3"
      [] n = 4 -> "4" [] n = 5 -> "5" [] n = 6 -> "6" [] n = 7 -> "7"
      [] n = 8 -> "8" [] n = 9 -> "9"

\* s[i..], s[..i]
DropFirst(s, n) == SubSeq(s, n + 1, Len(s))
TakeFirst(s, n) == SubSeq(s, 1, n)

\* str.startswith
StartsWith(s, p) == Len(s) >= Len(p) /\ TakeFirst(s, Len(p)) = p

\* c in s, for a one-character c
Contains(s, c) == \E i \in 1..Len(s) : s[i] = c

\* index of the first c in s, 0 when there is none
IndexOf(s, c) ==
    IF Contains(s, c) THEN CHOOSE i \in 1..Len(s) : s[i] = c /\ \A k \in 1..(i - 1) : s[k] # c
    ELSE 0

\* str.split(sep) for a one-character sep: always at least one field
RECURSIVE Split(_, _)
Split(s, sep) ==
    LET i == IndexOf(s, sep)
    IN  IF i = 0 THEN <<s>>
        ELSE <<TakeFirst(s, i - 1)>> \o Split(DropFirst(s, i), sep)

\* sep.join(fields)
RECURSIVE Join(_, _)
Join(sep, fields) ==
    IF fields = <<>> THEN <<>>
    ELSE IF Len(fields) = 1 THEN fields[1]
    ELSE fields[1] \o <<sep>> \o Join(sep, Tail(fields))

\* "".join(lines): what file.writelines writes
RECURSIVE Concat(_)
Concat(lines) == IF lines = <<>> THEN <<>> ELSE Head(lines) \o Concat(Tail(lines))

\* file.readlines(): the lines of a text, each with its line end
RECURSIVE ReadLines(_)
ReadLines(text) ==
    LET i == IndexOf(text, NL)
    IN  IF text = <<>> THEN <<>>
        ELSE IF i = 0 THEN <<text>>
        ELSE <<TakeFirst(text, i)>> \o ReadLines(DropFirst(text, i))

\* str.strip() of the white space int() ignores
IsSpace(c) == c \in {" ", NL}
RECURSIVE LStrip(_)
LStrip(s) == IF s # <<>> /\ IsSpace(Head(s)) THEN LStrip(Tail(s)) ELSE s
RECURSIVE RStrip(_)
RStrip(s) == IF s # <<>> /\ IsSpace(s[Len(s)]) THEN RStrip(TakeFirst(s, Len(s) - 1)) ELSE s
Strip(s) == RStrip(LStrip(s))

AllDigits(s) == s # <<>> /\ \A i \in 1..Len(s) : s[i] \in Digit

RECURSIVE NatOfDigits(_)
NatOfDigits(s) ==
    IF s = <<>> THEN 0
    ELSE 10 * NatOfDigits(TakeFirst(s, Len(s) - 1)) + DigitVal(s[Len(s)])

RECURSIVE DigitsOfNat(_)
DigitsOfNat(n) ==
    IF n < 10 THEN <<DigitChar(n)>>
    ELSE DigitsOfNat(n \div 10) \o <<DigitChar(n % 10)>>

\* int(s) succeeds: optional white space around an optional sign and digits
IntBody(s) ==
    LET t == Strip(s)
    IN  IF t # <<>> /\ Head(t) \in {"+", "-"} THEN Tail(t) ELSE t
IsIntLiteral(s) == AllDigits(IntBody(s))

\* int(s)
PyInt(s) ==
    LET t == Strip(s)
    IN  IF Head(t) = "-" THEN 0 - NatOfDigits(IntBody(s)) ELSE NatOfDigits(IntBody(s))

\* str(n)
PyStr(n) == IF n < 0 THEN <<"-">> \o DigitsOfNat(0 - n) ELSE DigitsOfNat(n)

-----------------------------------------------------------------------------
(* utils.py: set_version and get_version, as functions of the file's text *)

\* "__version__"
Prefix == <<"_", "_", "v", "e", "r", "s", "i", "o", "n", "_", "_">>

\* "increment"
Increment == <<"i", "n", "c", "r", "e", "m", "e", "n", "t">>

\* for i, j in enumerate(list_of_lines): if j.startswith("__version__"): ... break
\* the index of the first such line, 0 when the loop reaches its else
VersionLineIndex(lines) ==
    IF \E i \in 1..Len(lines) : StartsWith(lines[i], Prefix)
    THEN CHOOSE i \in 1..Len(lines) :
            /\ StartsWith(lines[i], Prefix)
            /\ \A k \in 1..(i - 1) : ~StartsWith(lines[k], Prefix)
    ELSE 0

\* delimiter = '"' if '"' in j else "'"
Delimiter(j) == IF Contains(j, DQ) THEN DQ ELSE SQ

\* IncrementPayload with the minor component, version_list[1], incremented instead
IncrementPayloadMinor(payload) ==
    LET version_list == Split(payload, ".")
    IN  IF Len(version_list) < 3 THEN [err |-> "IndexError", payload |-> payload]
        ELSE IF ~IsIntLiteral(version_list[2]) THEN [err |-> "ValueError", payload |-> payload]
        ELSE [err |-> "",
              payload |-> Join(".", [version_list EXCEPT ![2] = PyStr(PyInt(version_list[2]) + 1)])]

\* IncrementPayload with "1" appended to the text of the patch component, nothing added
IncrementPayloadConcat(payload) ==
    LET version_list == Split(payload, ".")
    IN  IF Len(version_list) < 3 THEN [err |-> "IndexError", payload |-> payload]
        ELSE IF ~IsIntLiteral(version_list[3]) THEN [err |-> "ValueError", payload |-> payload]
        ELSE [err |-> "",
              payload |-> Join(".", [version_list EXCEPT ![3] = version_list[3] \o <<"1">>])]

\* version_list = delimited[1].split("."); version_list[2] = str(int(version_list[2]) + 1)
\* delimited[1] = ".".join(version_list)
IncrementPayload(payload) ==
    LET version_list == Split(payload, ".")
    IN  IF Len(version_list) < 3 THEN [err |-> "IndexError", payload |-> payload]
        ELSE IF ~IsIntLiteral(version_list[3]) THEN [err |-> "ValueError", payload |-> payload]
        ELSE [err |-> "",
              payload |-> Join(".", [version_list EXCEPT ![3] = PyStr(PyInt(version_list[3]) + 1)])]

\* NewVersionLine with the line always put together with double quotes
NewVersionLineDoubleQuoted(j, version) ==
    LET delimiter == Delimiter(j)
        delimited == Split(j, delimiter)
    IN  IF Len(delimited) < 2 THEN [err |-> "IndexError", line |-> j]
        ELSE IF version = Increment
        THEN LET r == IncrementPayload(delimited[2])
             IN  IF r.err # "" THEN [err |-> r.err, line |-> j]
                 ELSE [err |-> "", line |-> Join(DQ, [delimited EXCEPT ![2] = r.payload])]
        ELSE [err |-> "", line |-> Join(DQ, [delimited EXCEPT ![2] = version])]

\* the body of the loop for the matching line j: the new text of the line
NewVersionLine(j, version) ==
    LET delimiter == Delimiter(j)
        delimited == Split(j, delimiter)
    IN  IF Len(delimited) < 2 THEN [err |-> "IndexError", line |-> j]
        ELSE IF version = Increment
        THEN LET r == IncrementPayload(delimited[2])
             IN  IF r.err # "" THEN [err |-> r.err, line |-> j]
                 ELSE [err |-> "", line |-> Join(delimiter, [delimited EXCEPT ![2] = r.payload])]
        ELSE [err |-> "", line |-> Join(delimiter, [delimited EXCEPT ![2] = version])]

\* set_version with the file opened for writing (and so emptied) before the lines are edited
set_version_write_first(text, version) ==
    LET list_of_lines == ReadLines(text)
        i == VersionLineIndex(list_of_lines)
    IN  IF i = 0 THEN [err |-> "ValueError", text |-> <<>>]
        ELSE LET r == NewVersionLine(list_of_lines[i], version)
             IN  IF r.err # "" THEN [err |-> r.err, text |-> <<>>]
                 ELSE [err |-> "", text |-> Concat([list_of_lines EXCEPT ![i] = r.line])]

\* set_version(version) on a file holding text: the error raised ("" when none)
\* and the text of the file after the call
set_version(text, version) ==
    LET list_of_lines == ReadLines(text)
        i == VersionLineIndex(list_of_lines)
    IN  IF i = 0 THEN [err |-> "ValueError", text |-> text]
        ELSE LET r == NewVersionLine(list_of_lines[i], version)
             IN  IF r.err # "" THEN [err |-> r.err, text |-> text]
                 ELSE [err |-> "", text |-> Concat([list_of_lines EXCEPT ![i] = r.line])]

\* get_version() on a file holding text: the error raised and the string returned
get_version(text) ==
    LET lines == ReadLines(text)
        i == VersionLineIndex(lines)
    IN  IF i = 0 THEN [err |-> "ValueError", ret |-> <<>>]
        ELSE LET delim == Delimiter(lines[i])
                 fields == Split(lines[i], delim)
             IN  IF Len(fields) < 2 THEN [err |-> "IndexError", ret |-> <<>>]
                 ELSE [err |-> "", ret |-> fields[2]]

-----------------------------------------------------------------------------
(* paths.py: find_path, set_root, set_paths *)

Range(s) == {s[i] : i \in 1..Len(s)}

\* every file and every directory of a filesystem whose files are t
Nodes(t) == UNION {{TakeFirst(p, n) : n \in 1..Len(p)} : p \in t}

\* folder.glob("*/" * lev + file): the entries named file exactly lev directories below folder
Glob(t, folder, lev, file) ==
    {i \in Nodes(t) : /\ Len(i) = Len(folder) + lev + 1
                      /\ TakeFirst(i, Len(folder)) = folder
                      /\ i[Len(i)] = file}

\* IsThatFile comparing the exclusion strings with i.name only
IsThatFileNameOnly(i, exclude) == \A j \in exclude : j # i[Len(i)]

\* isthatfile: no exclusion string is one of i.parts
IsThatFile(i, exclude) == \A j \in exclude : j \notin Range(i)

\* FindFromLevel as one search over all the levels at once: any accepted entry
FindAnyLevel(t, file, folder, exclude, levels, lev) ==
    LET accepted == {i \in UNION {Glob(t, folder, l, file) : l \in lev..(levels - 1)} :
                        IsThatFile(i, exclude)}
    IN  IF accepted # {}
        THEN {[err |-> "", path |-> i] : i \in accepted}
        ELSE {[err |-> "FileNotFoundError", path |-> <<>>]}

\* FindFromLevel with one level too many, range(levels + 1)
RECURSIVE FindFromLevelOneMore(_, _, _, _, _, _)
FindFromLevelOneMore(t, file, folder, exclude, levels, lev) ==
    IF lev > levels
    THEN {[err |-> "FileNotFoundError", path |-> <<>>]}
    ELSE LET accepted == {i \in Glob(t, folder, lev, file) : IsThatFile(i, exclude)}
         IN  IF accepted # {}
             THEN {[err |-> "", path |-> i] : i \in accepted}
             ELSE FindFromLevelOneMore(t, file, folder, exclude, levels, lev + 1)

\* for lev in range(levels): the first accepted entry glob yields at the first level
\* that has one; glob's order within a level is the filesystem's, so any of them
RECURSIVE FindFromLevel(_, _, _, _, _, _)
FindFromLevel(t, file, folder, exclude, levels, lev) ==
    IF lev >= levels
    THEN {[err |-> "FileNotFoundError", path |-> <<>>]}
    ELSE LET accepted == {i \in Glob(t, folder, lev, file) : IsThatFile(i, exclude)}
         IN  IF accepted # {}
             THEN {[err |-> "", path |-> i] : i \in accepted}
             ELSE FindFromLevel(t, file, folder, exclude, levels, lev + 1)

\* folder = root_path if not folder else Path(folder).resolve()
SearchFolder(root, folder) == IF folder = <<>> THEN root ELSE folder

\* find_path(file, folder, exclude, levels): the outcomes it can have
find_path(t, root, file, folder, exclude, levels) ==
    IF levels > 0 /\ SearchFolder(root, folder) = <<>>
    THEN {[err |-> "AttributeError", path |-> <<>>]}
    ELSE FindFromLevel(t, file, SearchFolder(root, folder), exclude, levels, 0)

\* exclude=["node_modules", "build", "dist"], levels=5
DefaultExclude == {"node_modules", "build", "dist"}
DefaultLevels == 5

\* Path(x): the components of x without the "." and empty ones
PathOf(x) ==
    LET parts == SelectSeq(x, LAMBDA c : c # "." /\ c # "")
    IN  IF parts = <<>> THEN <<".">> ELSE parts

\* Path.as_posix(): the components joined by "/"
AsPosix(p) == Join("/", [i \in 1..Len(p) |-> <<p[i]>>])

\* Path.parent
Parent(p) == IF Len(p) > 1 THEN TakeFirst(p, Len(p) - 1) ELSE <<".">>

\* Path.cwd()
Cwd == <<"work">>

\* set_root inserting the root without looking whether sys.path holds it
set_root_always_insert(set_root_path, sys) ==
    LET root == IF set_root_path # <<>> THEN PathOf(set_root_path) ELSE Cwd
    IN  [root_path |-> root, sys_path |-> <<AsPosix(root)>> \o sys]

\* set_root(set_root_path) from a state with search path sys: the new root and search path
set_root(set_root_path, sys) ==
    LET root == IF set_root_path # <<>> THEN PathOf(set_root_path) ELSE Cwd
    IN  [root_path |-> root,
         sys_path |-> IF AsPosix(root) \notin Range(sys) THEN <<AsPosix(root)>> \o sys ELSE sys]

-----------------------------------------------------------------------------
(* utils.py: the cleanup loop of sphinx_docs_regenerate *)

\* ["conf.py", "index.rst", "_static", "_templates", *exclude_paths]
KeptNames(exclude_paths) == {"conf.py", "index.rst", "_static", "_templates"} \cup exclude_paths

\* VisitEntry with the caller's exclude_paths left out of the list
VisitEntryFixedNames(dir, p, exclude_paths) ==
    IF p.name \notin KeptNames({}) /\ p.kind = "file"
    THEN dir \ {p}
    ELSE dir

\* one turn of the loop, for entry p of a directory holding entries dir:
\* p.unlink() removes a file and raises for a directory, which is passed over
VisitEntry(dir, p, exclude_paths) ==
    IF p.name \notin KeptNames(exclude_paths) /\ p.kind = "file"
    THEN dir \ {p}
    ELSE dir

\* the directory after the whole loop
Cleanup(dir, exclude_paths) ==
    {p \in dir : VisitEntry({p}, p, exclude_paths) # {}}

-----------------------------------------------------------------------------
(* The files, trees and arguments the operations are run on *)

Proj == <<"proj">>
InitName == "__init__.py"
ProjInit == <<"proj", "pkg", "__init__.py">>

\* version payloads: well formed, with a carry and a leading zero, too short, not numeric
V123 == <<"1", ".", "2", ".", "3">>
V0199 == <<"0", ".", "0", "1", ".", "9", "9">>
V12 == <<"1", ".", "2">>
V12b == <<"1", ".", "2", ".", "b">>
V777 == <<"7", ".", "7", ".", "7">>
V200 == <<"2", ".", "0", ".", "0">>
Payloads == {V123, V0199, V12, V12b}

\* __version__ = <q>payload<q>tail
DeclLine(q, payload, tail) ==
    Prefix \o <<" ", "=", " ", q>> \o payload \o <<q>> \o tail \o <<NL>>

DeclLines ==
    {DeclLine(q, p, <<>>) : q \in {DQ, SQ}, p \in Payloads}
    \cup {DeclLine(SQ, V123, <<" ", "#", " ", DQ, "x", DQ>>),
          Prefix \o <<" ", "=", " ", "1", NL>>}

\* lines before the declaration: none, a comment, an indented __version__ line
LinesBefore ==
    {<<>>,
     <<<<"#", " ", "d", NL>>>>,
     <<<<" ">> \o DeclLine(DQ, V777, <<>>)>>}

\* lines after it: none, another assignment, a second declaration, one without a line end
LinesAfter ==
    {<<>>,
     <<<<"a", " ", "=", " ", SQ, "m", SQ, NL>>>>,
     <<DeclLine(DQ, V777, <<>>)>>,
     <<<<"x", " ", "=", " ", "1">>>>}

Files ==
    {Concat(b \o d \o a) : b \in LinesBefore, a \in LinesAfter,
                           d \in {<<l>> : l \in DeclLines} \cup {<<>>}}

\* set_version arguments: "increment", "2.0.0", "v9"
Versions == {Increment, V200, <<"v", "9">>}

\* the calls a run makes at most
MaxCalls == 3

\* "__version__", the tag that stands for the version of the init file
TagSentinel == Prefix

\* the default of push_pipeline's git_params
DefaultGitParams ==
    [commit_message |-> "New commit", tag |-> TagSentinel, tag_mesage |-> "New version"]

\* a dict of the caller's
CallerGitParams ==
    [commit_message |-> "Release", tag |-> <<"r", "1">>, tag_mesage |-> ""]

\* no --commit_message, --tag or --tag_mesage on the command line
NoOverrides == [given |-> {}, commit_message |-> "", tag |-> <<>>, tag_mesage |-> ""]

\* sphinx_docs arguments: False, True, [], ["notes.txt"]
DocsOff == [is_list |-> FALSE, truthy |-> FALSE, items |-> {}]
DocsOn == [is_list |-> FALSE, truthy |-> TRUE, items |-> {}]
DocsEmptyList == [is_list |-> TRUE, truthy |-> FALSE, items |-> {}]
DocsList == [is_list |-> TRUE, truthy |-> TRUE, items |-> {"notes.txt"}]

\* no push_pipeline has been called: the dicts git_params can refer to; git will
\* hold the git commands a run has issued
PlIdle ==
    [pc |-> "idle", runs |-> 0, tests |-> FALSE, version |-> <<>>, sphinx_docs |-> DocsOff,
     git_params |-> "empty", deploy |-> FALSE, cli |-> NoOverrides,
     steps |-> <<>>, err |-> "", pytested |-> 0, paths_unset |-> FALSE,
     dicts |-> [default |-> DefaultGitParams, caller |-> CallerGitParams],
     git |-> <<>>]

-----------------------------------------------------------------------------
(* set_version and get_version called in any order on one init file *)

InitVersion ==
    /\ root_path = Proj
    /\ init_path \in {ProjInit, <<>>}
    /\ app_path = IF init_path = <<>> THEN <<>> ELSE Parent(init_path)
    /\ sys_path = <<AsPosix(Proj)>>
    /\ tree = {ProjInit}
    /\ init_file \in Files
    /\ source_dir = {}
    /\ calls = <<>>
    /\ hist = <<>>
    /\ pl = PlIdle

\* set_version(version): open(paths.INIT_PATH) raises TypeError for None
SetVersion(version) ==
    /\ Len(calls) < MaxCalls
    /\ LET r == IF init_path = <<>> THEN [err |-> "TypeError", text |-> init_file]
                ELSE set_version(init_file, version)
       IN  /\ init_file' = r.text
           /\ calls' = Append(calls, [op |-> "set_version", arg |-> version,
                                      err |-> r.err, ret |-> <<>>])
    /\ hist' = Append(hist, init_file)
    /\ UNCHANGED <<root_path, app_path, init_path, sys_path, tree, source_dir, pl>>

\* get_version()
GetVersion ==
    /\ Len(calls) < MaxCalls
    /\ LET r == IF init_path = <<>> THEN [err |-> "TypeError", ret |-> <<>>]
                ELSE get_version(init_file)
       IN  calls' = Append(calls, [op |-> "get_version", arg |-> <<>>,
                                   err |-> r.err, ret |-> r.ret])
    /\ hist' = Append(hist, init_file)
    /\ UNCHANGED <<root_path, app_path, init_path, sys_path, tree, init_file, source_dir, pl>>

NextVersion ==
    \/ \E version \in Versions : SetVersion(version)
    \/ GetVersion

SpecVersion == InitVersion /\ [][NextVersion]_vars

-----------------------------------------------------------------------------
(* find_path called on any tree *)

DistQ == <<"dist", "q">>

\* the files a tree is made of: __init__.py at depths 0 to 4 below proj, one of
\* them under a directory named build, another file, and one below dist/q
TreeFiles ==
    {<<"proj", InitName>>,
     <<"proj", "a", InitName>>,
     <<"proj", "build", InitName>>,
     <<"proj", "a", "b", InitName>>,
     <<"proj", "a", "b", "c", InitName>>,
     <<"proj", "a", "b", "c", "d", InitName>>,
     <<"proj", "a", "setup.py">>,
     <<"dist", "q", InitName>>}

Trees == SUBSET TreeFiles

Excludes == {{}, {"build"}, DefaultExclude, {"a"}}

\* the largest levels argument tried
MaxLevels == 4

InitFind ==
    /\ root_path \in {<<>>, Proj}
    /\ app_path = <<>>
    /\ init_path = <<>>
    /\ sys_path = <<>>
    /\ tree \in Trees
    /\ init_file = <<>>
    /\ source_dir = {}
    /\ calls = <<>>
    /\ hist = <<>>
    /\ pl = PlIdle

\* find_path(file, folder, exclude, levels): it changes nothing, one call is observed
FindPath(file, folder, exclude, levels) ==
    /\ calls = <<>>
    /\ \E r \in find_path(tree, root_path, file, folder, exclude, levels) :
          calls' = <<[op |-> "find_path", file |-> file, folder |-> folder,
                      exclude |-> exclude, levels |-> levels,
                      err |-> r.err, path |-> r.path]>>
    /\ UNCHANGED <<root_path, app_path, init_path, sys_path, tree, init_file,
                   source_dir, hist, pl>>

NextFind ==
    \E folder \in {<<>>, Proj, DistQ}, exclude \in Excludes, levels \in 0..MaxLevels :
        FindPath(InitName, folder, exclude, levels)

SpecFind == InitFind /\ [][NextFind]_vars

-----------------------------------------------------------------------------
(* set_root and set_paths called in any order *)

\* set_root_path arguments: None, "proj", "./proj", "dist/q", "work" (the cwd)
RootArgs == {<<>>, Proj, <<".", "proj">>, DistQ, <<"work">>}

\* set_init_path arguments: None, "proj/pkg/__init__.py", "x.py"
InitArgs == {<<>>, ProjInit, <<"x.py">>}

\* sys.path at the start: no entry twice
Lib == AsPosix(<<"usr", "lib">>)
SysPaths == {<<>>, <<Lib>>, <<AsPosix(Proj), Lib>>, <<Lib, AsPosix(Cwd)>>}

PathTrees ==
    {{},
     {ProjInit},
     {ProjInit, <<"proj", "build", InitName>>, <<"work", InitName>>,
      <<"dist", "q", "pkg", InitName>>}}

InitPaths ==
    /\ root_path = <<>>
    /\ app_path = <<>>
    /\ init_path = <<>>
    /\ sys_path \in SysPaths
    /\ tree \in PathTrees
    /\ init_file = <<>>
    /\ source_dir = {}
    /\ calls = <<>>
    /\ hist = {}
    /\ pl = PlIdle

\* the call observed: its arguments, its error, and the root and search path before it
PathCall(op, set_root_path, set_init_path, err) ==
    [op |-> op, set_root_path |-> set_root_path, set_init_path |-> set_init_path,
     err |-> err, root_before |-> root_path, sys_before |-> sys_path,
     init_before |-> init_path, app_before |-> app_path]

\* set_root(set_root_path); hist collects the roots set so far
SetRoot(set_root_path) ==
    /\ root_path' = set_root(set_root_path, sys_path).root_path
    /\ sys_path' = set_root(set_root_path, sys_path).sys_path
    /\ calls' = <<PathCall("set_root", set_root_path, <<>>, "")>>
    /\ hist' = hist \cup {root_path'}
    /\ UNCHANGED <<app_path, init_path, tree, init_file, source_dir, pl>>

\* SetPaths putting the root and the search path back when find_path raises
SetPathsRollback(set_root_path, set_init_path) ==
    /\ IF set_init_path # <<>>
       THEN /\ root_path' = set_root(set_root_path, sys_path).root_path
            /\ sys_path' = set_root(set_root_path, sys_path).sys_path
            /\ init_path' = PathOf(set_init_path)
            /\ app_path' = Parent(init_path')
            /\ calls' = <<PathCall("set_paths", set_root_path, set_init_path, "")>>
       ELSE LET new == set_root(set_root_path, sys_path)
            IN  \E r \in find_path(tree, new.root_path, InitName, new.root_path,
                                   DefaultExclude, DefaultLevels) :
                  /\ root_path' = IF r.err = "" THEN new.root_path ELSE root_path
                  /\ sys_path' = IF r.err = "" THEN new.sys_path ELSE sys_path
                  /\ init_path' = IF r.err = "" THEN r.path ELSE init_path
                  /\ app_path' = IF r.err = "" THEN Parent(r.path) ELSE app_path
                  /\ calls' = <<PathCall("set_paths", set_root_path, set_init_path, r.err)>>
    /\ hist' = hist \cup {root_path'}
    /\ UNCHANGED <<tree, init_file, source_dir, pl>>

\* set_paths(set_root_path, set_init_path): set_root, then init_path found or given;
\* when find_path raises, the root is set and init_path and app_path are not
SetPaths(set_root_path, set_init_path) ==
    /\ root_path' = set_root(set_root_path, sys_path).root_path
    /\ sys_path' = set_root(set_root_path, sys_path).sys_path
    /\ hist' = hist \cup {root_path'}
    /\ IF set_init_path # <<>>
       THEN /\ init_path' = PathOf(set_init_path)
            /\ app_path' = Parent(init_path')
            /\ calls' = <<PathCall("set_paths", set_root_path, set_init_path, "")>>
       ELSE \E r \in find_path(tree, root_path', InitName, root_path', DefaultExclude, DefaultLevels) :
              /\ init_path' = IF r.err = "" THEN r.path ELSE init_path
              /\ app_path' = IF r.err = "" THEN Parent(r.path) ELSE app_path
              /\ calls' = <<PathCall("set_paths", set_root_path, set_init_path, r.err)>>
    /\ UNCHANGED <<tree, init_file, source_dir, pl>>

NextPaths ==
    \/ \E set_root_path \in RootArgs : SetRoot(set_root_path)
    \/ \E set_root_path \in RootArgs, set_init_path \in InitArgs :
          SetPaths(set_root_path, set_init_path)

SpecPaths == InitPaths /\ [][NextPaths]_vars

-----------------------------------------------------------------------------
(* sphinx_docs_regenerate, one call, the loop taken entry by entry *)

ProjDocs == <<"proj", "docs">>

\* what docs/source may hold at the start: files and directories, kept and not
DocEntries ==
    {[name |-> "conf.py", kind |-> "file", data |-> "written"],
     [name |-> "index.rst", kind |-> "file", data |-> "written"],
     [name |-> "_static", kind |-> "dir", data |-> "written"],
     [name |-> "modules.rst", kind |-> "file", data |-> "stale"],
     [name |-> "notes.txt", kind |-> "file", data |-> "written"],
     [name |-> "img", kind |-> "dir", data |-> "written"]}

\* exclude_paths arguments
ExcludePaths == {{}, {"notes.txt"}, {"notes.txt", "img", "gone.rst"}}

\* sphinx-apidoc -f -e -o source <app_path>: the rst files written anew
Generated ==
    {[name |-> "modules.rst", kind |-> "file", data |-> "generated"],
     [name |-> "pkg.rst", kind |-> "file", data |-> "generated"]}

Apidoc(dir) == {p \in dir : p.name \notin {g.name : g \in Generated}} \cup Generated

InitDocs ==
    /\ root_path \in {<<>>, Proj}
    /\ app_path \in {<<>>, Parent(ProjInit)}
    /\ root_path = <<>> => app_path = <<>>
    /\ init_path = IF app_path = <<>> THEN <<>> ELSE ProjInit
    /\ sys_path = <<>>
    /\ tree = {ProjInit}
    /\ init_file = <<>>
    /\ source_dir \in SUBSET DocEntries
    /\ calls = <<>>
    /\ hist = <<>>
    /\ pl = PlIdle

\* the statement after the loop, after make html, after sphinx-apidoc
AfterCleanup(c) == IF c.build_locally THEN "build" ELSE "apidoc"
AfterApidoc(c) == IF c.git_add THEN "git_add" ELSE "done"

\* the call starts: the checks before the loop, then the listing of docs/source
DocsCall(docs_path, build_locally, git_add, exclude_paths, sphinx) ==
    /\ calls = <<>>
    /\ LET c == [op |-> "sphinx_docs_regenerate", docs_path |-> docs_path,
                 build_locally |-> build_locally, git_add |-> git_add,
                 exclude_paths |-> exclude_paths, pc |-> "cleanup", todo |-> source_dir,
                 err |-> "", procs |-> <<>>]
           raised(err) == [c EXCEPT !.pc = "raised", !.todo = {}, !.err = err]
       IN  calls' = <<IF ~sphinx THEN raised("ImportError")
                      ELSE IF docs_path = <<>> /\ root_path = <<>> THEN raised("NotADirectoryError")
                      ELSE IF source_dir = {} THEN [c EXCEPT !.pc = AfterCleanup(c)]
                      ELSE c>>
    /\ hist' = <<source_dir>>
    /\ UNCHANGED <<root_path, app_path, init_path, sys_path, tree, init_file, source_dir, pl>>

\* one turn of the loop: for p in Path(docs_source_path).iterdir()
DocsVisit(p) ==
    /\ calls # <<>>
    /\ calls[1].op = "sphinx_docs_regenerate"
    /\ calls[1].pc = "cleanup"
    /\ p \in calls[1].todo
    /\ source_dir' = VisitEntry(source_dir, p, calls[1].exclude_paths)
    /\ calls' = <<[calls[1] EXCEPT !.todo = @ \ {p},
                                   !.pc = IF calls[1].todo = {p} THEN AfterCleanup(calls[1])
                                          ELSE "cleanup"]>>
    /\ UNCHANGED <<root_path, app_path, init_path, sys_path, tree, init_file, hist, pl>>

\* subprocess.run(["make", "html"], check=True): it returns or raises
DocsBuild(ok) ==
    /\ calls # <<>>
    /\ calls[1].op = "sphinx_docs_regenerate"
    /\ calls[1].pc = "build"
    /\ calls' = <<[calls[1] EXCEPT !.procs = Append(@, "make html"),
                                   !.pc = IF ok THEN "apidoc" ELSE "raised",
                                   !.err = IF ok THEN "" ELSE "CalledProcessError"]>>
    /\ UNCHANGED <<root_path, app_path, init_path, sys_path, tree, init_file,
                   source_dir, hist, pl>>

\* the sphinx-apidoc subprocess; paths.APP_PATH.as_posix() raises for None
DocsApidoc(ok) ==
    /\ calls # <<>>
    /\ calls[1].op = "sphinx_docs_regenerate"
    /\ calls[1].pc = "apidoc"
    /\ IF app_path = <<>>
       THEN /\ calls' = <<[calls[1] EXCEPT !.pc = "raised", !.err = "AttributeError"]>>
            /\ UNCHANGED source_dir
       ELSE /\ calls' = <<[calls[1] EXCEPT !.procs = Append(@, "sphinx-apidoc"),
                                           !.pc = IF ok THEN AfterApidoc(calls[1]) ELSE "raised",
                                           !.err = IF ok THEN "" ELSE "CalledProcessError"]>>
            /\ source_dir' = IF ok THEN Apidoc(source_dir) ELSE source_dir
    /\ UNCHANGED <<root_path, app_path, init_path, sys_path, tree, init_file, hist, pl>>

\* subprocess.run(["git", "add", "docs"], check=True)
DocsGitAdd(ok) ==
    /\ calls # <<>>
    /\ calls[1].op = "sphinx_docs_regenerate"
    /\ calls[1].pc = "git_add"
    /\ calls' = <<[calls[1] EXCEPT !.procs = Append(@, "git add docs"),
                                   !.pc = IF ok THEN "done" ELSE "raised",
                                   !.err = IF ok THEN "" ELSE "CalledProcessError"]>>
    /\ UNCHANGED <<root_path, app_path, init_path, sys_path, tree, init_file,
                   source_dir, hist, pl>>

NextDocs ==
    \/ \E docs_path \in {<<>>, ProjDocs}, build_locally \in BOOLEAN, git_add \in BOOLEAN,
          exclude_paths \in ExcludePaths, sphinx \in BOOLEAN :
          DocsCall(docs_path, build_locally, git_add, exclude_paths, sphinx)
    \/ \E p \in DocEntries : DocsVisit(p)
    \/ \E ok \in BOOLEAN : DocsBuild(ok)
    \/ \E ok \in BOOLEAN : DocsApidoc(ok)
    \/ \E ok \in BOOLEAN : DocsGitAdd(ok)

SpecDocs == InitDocs /\ [][NextDocs]_vars

-----------------------------------------------------------------------------
(* utils.py: push_pipeline, statement by statement *)

\* run_tests without the check of pytested
run_tests_no_raise(pytested, coverage_there) ==
    IF ~coverage_there THEN "FileNotFoundError" ELSE ""

\* run_tests(): pytest.main returns pytested; Path(".coverage").unlink() raises when
\* the file is not there; then if pytested == 1: raise RuntimeError
run_tests(pytested, coverage_there) ==
    IF ~coverage_there THEN "FileNotFoundError"
    ELSE IF pytested = 1 THEN "RuntimeError"
    ELSE ""

\* sphinx_docs_regenerate(exclude_paths=...) as push_pipeline calls it (docs_path
\* None, build_locally False, git_add True) on a source directory dir; fail names
\* what fails: the import of sphinx, the sphinx-apidoc or the git add subprocess
sphinx_docs_regenerate(dir, root, app, exclude_paths, fail) ==
    IF fail = "ImportError" THEN [err |-> "ImportError", dir |-> dir, added |-> FALSE]
    ELSE IF root = <<>> THEN [err |-> "NotADirectoryError", dir |-> dir, added |-> FALSE]
    ELSE IF app = <<>>
    THEN [err |-> "AttributeError", dir |-> Cleanup(dir, exclude_paths), added |-> FALSE]
    ELSE IF fail = "sphinx-apidoc"
    THEN [err |-> "CalledProcessError", dir |-> Cleanup(dir, exclude_paths), added |-> FALSE]
    ELSE [err |-> IF fail = "git add" THEN "CalledProcessError" ELSE "",
          dir |-> Apidoc(Cleanup(dir, exclude_paths)), added |-> fail # "git add"]

\* PositionAfter with the documentation regenerated before the version is set
PositionAfterDocsFirst(pc) ==
    CASE pc = "paths" -> "tests"
      [] pc = "tests" -> "docs"
      [] pc = "docs" -> "version"
      [] pc = "version" -> "git"
      [] pc = "git" -> "git_commit"
      [] pc = "git_commit" -> "git_tag"
      [] pc = "git_tag" -> "git_push"
      [] pc = "git_push" -> "deploy"
      [] pc = "deploy" -> "done"

\* the statements of push_pipeline in the order they are written, then those of git_push
PositionAfter(pc) ==
    CASE pc = "paths" -> "tests"
      [] pc = "tests" -> "version"
      [] pc = "version" -> "docs"
      [] pc = "docs" -> "git"
      [] pc = "git" -> "git_commit"
      [] pc = "git_commit" -> "git_tag"
      [] pc = "git_tag" -> "git_push"
      [] pc = "git_push" -> "deploy"
      [] pc = "deploy" -> "done"

\* all([paths.ROOT_PATH, paths.APP_PATH, paths.INIT_PATH])
AllPathsSet == root_path # <<>> /\ app_path # <<>> /\ init_path # <<>>

\* if git_params: an empty dict is falsy
GitParamsGiven(p) == p.git_params # "empty"

\* git_params.update(parser_args_dict): the arguments given on the command line
\* replace the entries of dict d
Update(d, cli) ==
    [commit_message |-> IF "commit_message" \in cli.given THEN cli.commit_message
                        ELSE d.commit_message,
     tag |-> IF "tag" \in cli.given THEN cli.tag ELSE d.tag,
     tag_mesage |-> IF "tag_mesage" \in cli.given THEN cli.tag_mesage ELSE d.tag_mesage]

\* a step of the pipeline has run: it is noted, and what it raised ends the run
Advance(p, step, err) ==
    [p EXCEPT !.steps = Append(@, step),
              !.err = err,
              !.pc = IF err # "" THEN "raised" ELSE PositionAfter(p.pc)]

\* the statement is passed over
Skip(p) == [p EXCEPT !.pc = PositionAfter(p.pc)]

\* push_pipeline calls made at most in one process
MaxRuns == 2

WorkInit == <<"work", "pkg", "__init__.py">>

\* the command line: no argument, or --commit_message fix --tag v9
CommandLines ==
    {NoOverrides,
     [given |-> {"commit_message", "tag"}, commit_message |-> "fix", tag |-> <<"v", "9">>,
      tag_mesage |-> ""]}

\* docs/source before the first run
PipelineDocs0 ==
    {[name |-> "conf.py", kind |-> "file", data |-> "written"],
     [name |-> "modules.rst", kind |-> "file", data |-> "stale"],
     [name |-> "notes.txt", kind |-> "file", data |-> "written"]}

InitPipeline ==
    /\ root_path \in {<<>>, Proj}
    /\ app_path \in {<<>>, Parent(ProjInit)}
    /\ root_path = <<>> => app_path = <<>>
    /\ init_path = IF app_path = <<>> THEN <<>> ELSE ProjInit
    /\ sys_path = <<>>
    /\ tree \in {{}, {WorkInit, ProjInit}}
    /\ init_file \in {Concat(<<DeclLine(DQ, V123, <<>>)>>), Concat(<<<<"#", " ", "d", NL>>>>)}
    /\ source_dir = PipelineDocs0
    /\ calls = <<>>
    /\ hist = <<>>
    /\ \E cli \in CommandLines : pl = [PlIdle EXCEPT !.cli = cli]

\* push_pipeline(tests, version, sphinx_docs, git_params, deploy) is called; hist
\* keeps what the run started from
PipelineCall(tests, version, sphinx_docs, git_params, deploy) ==
    /\ pl.pc = "idle"
    /\ pl.runs < MaxRuns
    /\ pl' = [pl EXCEPT !.pc = "paths", !.runs = @ + 1, !.tests = tests, !.version = version,
                        !.sphinx_docs = sphinx_docs, !.git_params = git_params,
                        !.deploy = deploy, !.steps = <<>>, !.err = "", !.pytested = 0,
                        !.paths_unset = ~AllPathsSet, !.git = <<>>]
    /\ hist' = <<[init_file |-> init_file, source_dir |-> source_dir, dicts |-> pl.dicts]>>
    /\ UNCHANGED <<root_path, app_path, init_path, sys_path, tree, init_file, source_dir, calls>>

\* if not all([...]): paths.set_paths()
PipelinePaths ==
    /\ pl.pc = "paths"
    /\ IF AllPathsSet
       THEN /\ pl' = Skip(pl)
            /\ UNCHANGED <<root_path, app_path, init_path, sys_path>>
       ELSE /\ root_path' = set_root(<<>>, sys_path).root_path
            /\ sys_path' = set_root(<<>>, sys_path).sys_path
            /\ \E r \in find_path(tree, root_path', InitName, root_path', DefaultExclude, DefaultLevels) :
                  /\ init_path' = IF r.err = "" THEN r.path ELSE init_path
                  /\ app_path' = IF r.err = "" THEN Parent(r.path) ELSE app_path
                  /\ pl' = Advance(pl, "set_paths", r.err)
    /\ UNCHANGED <<tree, init_file, source_dir, calls, hist>>

\* if tests: run_tests()
PipelineTests(pytested, coverage_there) ==
    /\ pl.pc = "tests"
    /\ pl' = IF pl.tests
             THEN [Advance(pl, "run_tests", run_tests(pytested, coverage_there))
                       EXCEPT !.pytested = pytested]
             ELSE Skip(pl)
    /\ UNCHANGED <<root_path, app_path, init_path, sys_path, tree, init_file, source_dir,
                   calls, hist>>

\* if version: set_version(version)
PipelineVersion ==
    /\ pl.pc = "version"
    /\ IF pl.version # <<>>
       THEN /\ init_file' = set_version(init_file, pl.version).text
            /\ pl' = Advance(pl, "set_version", set_version(init_file, pl.version).err)
       ELSE /\ pl' = Skip(pl)
            /\ UNCHANGED init_file
    /\ UNCHANGED <<root_path, app_path, init_path, sys_path, tree, source_dir, calls, hist>>

\* if isinstance(sphinx_docs, list): sphinx_docs_regenerate(exclude_paths=sphinx_docs)
\* elif sphinx_docs: sphinx_docs_regenerate()
PipelineDocs(fail) ==
    /\ pl.pc = "docs"
    /\ IF pl.sphinx_docs.is_list \/ pl.sphinx_docs.truthy
       THEN LET r == sphinx_docs_regenerate(source_dir, root_path, app_path,
                                            pl.sphinx_docs.items, fail)
            IN  /\ source_dir' = r.dir
                /\ pl' = [Advance(pl, "sphinx_docs_regenerate", r.err) EXCEPT
                             !.git = IF r.added THEN Append(@, [cmd |-> "add docs", msg |-> "", tag |-> <<>>])
                                     ELSE @]
       ELSE /\ pl' = Skip(pl)
            /\ UNCHANGED source_dir
    /\ UNCHANGED <<root_path, app_path, init_path, sys_path, tree, init_file, calls, hist>>

\* if git_params: the command line is merged into the dict, then git_push(...) starts:
\* git add .
PipelineGit(ok) ==
    /\ pl.pc = "git"
    /\ pl' = IF GitParamsGiven(pl)
             THEN [Advance(pl, "git_add", IF ok THEN "" ELSE "CalledProcessError") EXCEPT
                      !.dicts[pl.git_params] = IF pl.cli.given # {} THEN Update(@, pl.cli) ELSE @,
                      !.git = IF ok THEN Append(@, [cmd |-> "add", msg |-> "", tag |-> <<>>]) ELSE @]
             ELSE [pl EXCEPT !.pc = PositionAfter("git_push")]
    /\ UNCHANGED <<root_path, app_path, init_path, sys_path, tree, init_file, source_dir,
                   calls, hist>>

\* GitCommit run without check=True: a non-zero exit of git commit goes unnoticed
GitCommitUnchecked(ok) ==
    /\ pl.pc = "git_commit"
    /\ pl' = [Advance(pl, "git_commit", "") EXCEPT
                 !.git = IF ok THEN Append(@, [cmd |-> "commit",
                                               msg |-> pl.dicts[pl.git_params].commit_message,
                                               tag |-> <<>>])
                         ELSE @]
    /\ UNCHANGED <<root_path, app_path, init_path, sys_path, tree, init_file, source_dir,
                   calls, hist>>

\* git commit -m commit_message
GitCommit(ok) ==
    /\ pl.pc = "git_commit"
    /\ pl' = [Advance(pl, "git_commit", IF ok THEN "" ELSE "CalledProcessError") EXCEPT
                 !.git = IF ok THEN Append(@, [cmd |-> "commit",
                                               msg |-> pl.dicts[pl.git_params].commit_message,
                                               tag |-> <<>>])
                         ELSE @]
    /\ UNCHANGED <<root_path, app_path, init_path, sys_path, tree, init_file, source_dir,
                   calls, hist>>

\* GitTag with the version read when push_pipeline was called
GitTagStale(ok) ==
    /\ pl.pc = "git_tag"
    /\ LET d == pl.dicts[pl.git_params]
           tag_message == IF d.tag_mesage = "" THEN "New version" ELSE d.tag_mesage
           v == get_version(hist[1].init_file)
           tag == IF d.tag = TagSentinel THEN <<"v">> \o v.ret ELSE d.tag
           err == IF d.tag = TagSentinel /\ v.err # "" THEN v.err
                  ELSE IF ok THEN "" ELSE "GitCommandError"
       IN  pl' = [Advance(pl, "git_tag", err) EXCEPT
                     !.git = IF err = "" THEN Append(@, [cmd |-> "tag", msg |-> tag_message, tag |-> tag])
                             ELSE @]
    /\ UNCHANGED <<root_path, app_path, init_path, sys_path, tree, init_file, source_dir,
                   calls, hist>>

\* tag_message defaults to "New version"; tag "__version__" becomes "v" + get_version();
\* Repo(...).create_tag(tag, message=tag_message)
GitTag(ok) ==
    /\ pl.pc = "git_tag"
    /\ LET d == pl.dicts[pl.git_params]
           tag_message == IF d.tag_mesage = "" THEN "New version" ELSE d.tag_mesage
           v == get_version(init_file)
           tag == IF d.tag = TagSentinel THEN <<"v">> \o v.ret ELSE d.tag
           err == IF d.tag = TagSentinel /\ v.err # "" THEN v.err
                  ELSE IF ok THEN "" ELSE "GitCommandError"
       IN  pl' = [Advance(pl, "git_tag", err) EXCEPT
                     !.git = IF err = "" THEN Append(@, [cmd |-> "tag", msg |-> tag_message, tag |-> tag])
                             ELSE @]
    /\ UNCHANGED <<root_path, app_path, init_path, sys_path, tree, init_file, source_dir,
                   calls, hist>>

\* git push --follow-tags
GitPush(ok) ==
    /\ pl.pc = "git_push"
    /\ pl' = [Advance(pl, "git_push", IF ok THEN "" ELSE "CalledProcessError") EXCEPT
                 !.git = IF ok THEN Append(@, [cmd |-> "push", msg |-> "", tag |-> <<>>]) ELSE @]
    /\ UNCHANGED <<root_path, app_path, init_path, sys_path, tree, init_file, source_dir,
                   calls, hist>>

\* if deploy: deploy_module.deploy_to_pypi()
PipelineDeploy ==
    /\ pl.pc = "deploy"
    /\ pl' = IF pl.deploy THEN Advance(pl, "deploy_to_pypi", "") ELSE Skip(pl)
    /\ UNCHANGED <<root_path, app_path, init_path, sys_path, tree, init_file, source_dir,
                   calls, hist>>

\* push_pipeline returns, or what it raised leaves it: its locals are gone, the dicts
\* and the module's state stay
PipelineReturn ==
    /\ pl.pc \in {"done", "raised"}
    /\ pl' = [PlIdle EXCEPT !.runs = pl.runs, !.cli = pl.cli, !.dicts = pl.dicts]
    /\ hist' = <<>>
    /\ UNCHANGED <<root_path, app_path, init_path, sys_path, tree, init_file, source_dir, calls>>

NextPipeline ==
    \/ \E tests \in BOOLEAN, version \in {<<>>, Increment, V200},
          sphinx_docs \in {DocsOff, DocsOn, DocsEmptyList, DocsList},
          git_params \in {"empty", "default", "caller"}, deploy \in BOOLEAN :
          PipelineCall(tests, version, sphinx_docs, git_params, deploy)
    \/ PipelinePaths
    \/ \E pytested \in {0, 1, 2}, coverage_there \in BOOLEAN : PipelineTests(pytested, coverage_there)
    \/ PipelineVersion
    \/ \E fail \in {"", "ImportError", "sphinx-apidoc", "git add"} : PipelineDocs(fail)
    \/ \E ok \in BOOLEAN : PipelineGit(ok)
    \/ \E ok \in BOOLEAN : GitCommit(ok)
    \/ \E ok \in BOOLEAN : GitTag(ok)
    \/ \E ok \in BOOLEAN : GitPush(ok)
    \/ PipelineDeploy
    \/ PipelineReturn

SpecPipeline == InitPipeline /\ [][NextPipeline]_vars

-----------------------------------------------------------------------------
(* pyvueel.py: run_gui, one call, statement by statement *)

\* sys._MEIPASS / 'gui', the builded_gui_path argument, and the index.html that
\* misc.find_path finds in development and otherwise
Meipass == <<"tmp", "_MEI1">>
BuildedGui == <<"proj", "gui", "dist">>
DevelIndex == <<"proj", "gui", "public", "index.html">>
BuildIndex == <<"proj", "gui", "dist", "index.html">>

\* Path.parents[n]
Parents(p, n) == TakeFirst(p, Len(p) - (n + 1))

\* devel = False if os.environ.get('MY_PYTHON_VUE_ENVIRONMENT') == 'production' else True
DevelOf(devel, env) ==
    IF devel = "None" THEN env # "production" ELSE devel = "True"

\* log_file = log_file_path if given, else 'log.log' when frozen, else None
LogFileOf(log_file_path, is_builded) ==
    IF log_file_path # "" THEN log_file_path ELSE IF is_builded THEN "log.log" ELSE ""

\* the names assigned by the branch taken at if devel: ... else: ...
LocalsOf(devel) ==
    IF devel THEN {"directory", "app", "page", "port", "init_files", "close_callback"}
    ELSE {"directory", "close_callback", "app", "page", "port"}

\* mode=app of the first eel.start, and page
AppOf(devel) == IF devel THEN "None" ELSE "chrome"
PageOf(devel) == IF devel THEN "port 8080" ELSE "index.html"
PortOf(devel) == IF devel THEN 8686 ELSE 0

InitGui ==
    /\ root_path = <<>>
    /\ app_path = <<>>
    /\ init_path = <<>>
    /\ sys_path = <<>>
    /\ tree = {}
    /\ init_file = <<>>
    /\ source_dir = {}
    /\ calls = <<>>
    /\ hist = <<>>
    /\ pl = PlIdle

\* the call is at statement pc
GuiAt(pc) == calls # <<>> /\ calls[1].op = "run_gui" /\ calls[1].pc = pc

GuiFrame == UNCHANGED <<root_path, app_path, init_path, sys_path, tree, init_file, source_dir, hist, pl>>

\* run_gui(devel, is_multiprocessing, log_file_path, builded_gui_path) is called with
\* the environment variable env and sys.frozen; devel, is_builded and log_file are set
GuiCall(devel, is_multiprocessing, log_file_path, builded_gui_path, env, frozen) ==
    /\ calls = <<>>
    /\ calls' = <<[op |-> "run_gui", devel_arg |-> devel, env |-> env,
                   is_multiprocessing |-> is_multiprocessing,
                   builded_gui_path |-> builded_gui_path, is_builded |-> frozen,
                   devel |-> DevelOf(devel, env),
                   log_file |-> LogFileOf(log_file_path, frozen),
                   gui_path |-> <<>>, exists |-> "unknown", bound |-> {},
                   attempts |-> <<>>, logged |-> FALSE, pc |-> "resolve", err |-> ""]>>
    /\ GuiFrame

\* gui_path is resolved; misc.find_path finds index.html or raises FileNotFoundError
GuiResolve(found) ==
    /\ GuiAt("resolve")
    /\ LET c == calls[1]
           searches == ~c.is_builded /\ (c.devel \/ c.builded_gui_path = <<>>)
       IN  calls' = <<IF searches /\ ~found
                      THEN [c EXCEPT !.pc = "except_oserror", !.err = "FileNotFoundError"]
                      ELSE [c EXCEPT !.pc = "exists",
                                     !.gui_path = IF c.is_builded THEN Meipass \o <<"gui">>
                                                  ELSE IF c.devel THEN Parents(DevelIndex, 1) \o <<"src">>
                                                  ELSE IF c.builded_gui_path # <<>> THEN c.builded_gui_path
                                                  ELSE Parents(BuildIndex, 0)]>>
    /\ GuiFrame

\* if not gui_path.exists(): raise FileNotFoundError('Web files not found, ...')
GuiExists(exists) ==
    /\ GuiAt("exists")
    /\ calls' = <<IF exists THEN [calls[1] EXCEPT !.pc = "setup", !.exists = "yes"]
                  ELSE [calls[1] EXCEPT !.pc = "except_oserror", !.exists = "no",
                                        !.err = "FileNotFoundError"]>>
    /\ GuiFrame

\* if devel: ... else: ... assigns the locals of the branch
GuiSetup ==
    /\ GuiAt("setup")
    /\ calls' = <<[calls[1] EXCEPT !.pc = "init1", !.bound = LocalsOf(calls[1].devel)]>>
    /\ GuiFrame

\* eel.init(directory.as_posix(), [...], exlcude_patterns=[...]): the library takes
\* the keyword or raises TypeError
GuiInit1(ok) ==
    /\ GuiAt("init1")
    /\ calls' = <<IF ok THEN [calls[1] EXCEPT !.pc = "init2"]
                  ELSE [calls[1] EXCEPT !.pc = "except_exception", !.err = "TypeError"]>>
    /\ GuiFrame

\* eel.init(directory.as_posix(), init_files): init_files is assigned in the devel
\* branch only; the library reads the directory, which can raise OSError
GuiInit2(ok) ==
    /\ GuiAt("init2")
    /\ calls' = <<IF "init_files" \notin calls[1].bound
                  THEN [calls[1] EXCEPT !.pc = "except_exception", !.err = "UnboundLocalError"]
                  ELSE IF ok THEN [calls[1] EXCEPT !.pc = "start"]
                  ELSE [calls[1] EXCEPT !.pc = "except_oserror", !.err = "OSError"]>>
    /\ GuiFrame

\* freeze_support() if is_multiprocessing, the log line, then eel.start(page, mode=app,
\* ...): it returns when the window is closed, or raises
GuiStart(outcome) ==
    /\ GuiAt("start")
    /\ LET c == calls[1]
           started == Append(c.attempts, [mode |-> AppOf(c.devel), page |-> PageOf(c.devel),
                                          port |-> PortOf(c.devel), directory |-> c.gui_path,
                                          outcome |-> outcome])
       IN  calls' = <<[c EXCEPT !.attempts = started,
                                !.err = outcome,
                                !.pc = IF outcome = "" THEN "returned"
                                       ELSE IF outcome = "OSError" THEN "except_oserror"
                                       ELSE "except_exception"]>>
    /\ GuiFrame

\* except OSError: eel.start(page, mode='edge', ..., close_callback=close_callback,
\* port=port, ...); what is raised in the handler leaves run_gui
GuiRetry(outcome) ==
    /\ GuiAt("except_oserror")
    /\ LET c == calls[1]
           started == Append(c.attempts, [mode |-> "edge", page |-> PageOf(c.devel),
                                          port |-> PortOf(c.devel), directory |-> c.gui_path,
                                          outcome |-> outcome])
       IN  calls' = <<IF ~({"page", "close_callback", "port"} \subseteq c.bound)
                      THEN [c EXCEPT !.pc = "propagated", !.err = "UnboundLocalError"]
                      ELSE [c EXCEPT !.attempts = started,
                                     !.err = outcome,
                                     !.pc = IF outcome = "" THEN "returned" ELSE "propagated"]>>
    /\ GuiFrame

\* except Exception: mylogging.traceback("Py side terminated..."), then run_gui returns
GuiLog ==
    /\ GuiAt("except_exception")
    /\ calls' = <<[calls[1] EXCEPT !.pc = "returned", !.logged = TRUE]>>
    /\ GuiFrame

NextGui ==
    \/ \E devel \in {"None", "True", "False"}, is_multiprocessing \in BOOLEAN,
          log_file_path \in {"", "gui.log"}, builded_gui_path \in {<<>>, BuildedGui},
          env \in {"", "production", "development"}, frozen \in BOOLEAN :
          GuiCall(devel, is_multiprocessing, log_file_path, builded_gui_path, env, frozen)
    \/ \E found \in BOOLEAN : GuiResolve(found)
    \/ \E exists \in BOOLEAN : GuiExists(exists)
    \/ GuiSetup
    \/ \E ok \in BOOLEAN : GuiInit1(ok)
    \/ \E ok \in BOOLEAN : GuiInit2(ok)
    \/ \E outcome \in {"", "OSError", "RuntimeError"} : GuiStart(outcome)
    \/ \E outcome \in {"", "OSError", "RuntimeError"} : GuiRetry(outcome)
    \/ GuiLog

SpecGui == InitGui /\ [][NextGui]_vars

-----------------------------------------------------------------------------
(* Properties of push_pipeline (SpecPipeline) *)

Ran(step) == step \in Range(pl.steps)

\* C1: when the tests are enabled and the test step fails (pytest returns 1, or
\* run_tests raises), the run ends there: run_tests is the last step, and the
\* init file, docs/source and the repository are as the run found them.
C1_TestFailureAborts ==
    (pl.tests /\ Ran("run_tests")
        /\ (pl.pytested = 1 \/ (pl.err # "" /\ pl.steps[Len(pl.steps)] = "run_tests"))) =>
        /\ pl.pc = "raised"
        /\ pl.steps[Len(pl.steps)] = "run_tests"
        /\ ~Ran("set_version") /\ ~Ran("sphinx_docs_regenerate") /\ ~Ran("deploy_to_pypi")
        /\ ~Ran("git_add") /\ ~Ran("git_commit") /\ ~Ran("git_tag") /\ ~Ran("git_push")
        /\ pl.git = <<>>
        /\ init_file = hist[1].init_file
        /\ source_dir = hist[1].source_dir

\* pytest has returned 1 in a run with every later step enabled: the run has ended
C1_Witness ==
    /\ pl.pc = "raised"
    /\ pl.steps = <<"set_paths", "run_tests">>
    /\ pl.pytested = 1
    /\ pl.err = "RuntimeError"
    /\ pl.version = Increment /\ pl.sphinx_docs = DocsOn
    /\ pl.git_params = "default" /\ pl.deploy
    /\ init_file = Concat(<<DeclLine(DQ, V123, <<>>)>>)

\* the place of a step in the order of the pipeline
Rank(step) ==
    CASE step = "set_paths" -> 1
      [] step = "run_tests" -> 2
      [] step = "set_version" -> 3
      [] step = "sphinx_docs_regenerate" -> 4
      [] step = "git_add" -> 5
      [] step = "git_commit" -> 6
      [] step = "git_tag" -> 7
      [] step = "git_push" -> 8
      [] step = "deploy_to_pypi" -> 9

AllSteps ==
    {"set_paths", "run_tests", "set_version", "sphinx_docs_regenerate", "git_add",
     "git_commit", "git_tag", "git_push", "deploy_to_pypi"}

\* the steps run so far are in the order of the pipeline, none twice
InOrder ==
    \A i \in 1..Len(pl.steps), j \in 1..Len(pl.steps) :
        i < j => Rank(pl.steps[i]) < Rank(pl.steps[j])

\* the toggle of a step other than the documentation's is truthy
ToggleOn(step) ==
    CASE step = "set_paths" -> pl.paths_unset
      [] step = "run_tests" -> pl.tests
      [] step = "set_version" -> pl.version # <<>>
      [] step \in {"git_add", "git_commit", "git_tag", "git_push"} -> pl.git_params # "empty"
      [] step = "deploy_to_pypi" -> pl.deploy

\* a step has run only after every step before it that was to run
NoOvertaking(docs_on) ==
    \A s \in AllSteps, e \in AllSteps :
        (Ran(s) /\ Rank(e) < Rank(s)
            /\ IF e = "sphinx_docs_regenerate" THEN docs_on ELSE ToggleOn(e)) => Ran(e)

\* C2 as stated: the steps of a run are in the fixed order, each at most once,
\* set_paths only when a path was unset, and no step whose toggle is falsy runs.
C2_AsStated ==
    /\ InOrder
    /\ \A s \in AllSteps \ {"sphinx_docs_regenerate"} : Ran(s) => ToggleOn(s)
    /\ Ran("sphinx_docs_regenerate") => pl.sphinx_docs.truthy
    /\ NoOvertaking(pl.sphinx_docs.truthy)

\* C2, amended: the same, but the documentation step runs when sphinx_docs is
\* truthy or is a list, the empty list included.
C2_FixedOrder ==
    /\ InOrder
    /\ \A s \in AllSteps \ {"sphinx_docs_regenerate"} : Ran(s) => ToggleOn(s)
    /\ Ran("sphinx_docs_regenerate") => (pl.sphinx_docs.truthy \/ pl.sphinx_docs.is_list)
    /\ NoOvertaking(pl.sphinx_docs.truthy \/ pl.sphinx_docs.is_list)

\* a run with every step enabled and sphinx_docs=[] has run all nine steps
C2_Witness ==
    /\ pl.pc = "done"
    /\ pl.sphinx_docs = DocsEmptyList
    /\ pl.steps = <<"set_paths", "run_tests", "set_version", "sphinx_docs_regenerate",
                    "git_add", "git_commit", "git_tag", "git_push", "deploy_to_pypi">>

-----------------------------------------------------------------------------
(* Properties of set_version and get_version (SpecVersion) *)

\* the text of the init file after call i
TextAfter(i) == IF i < Len(hist) THEN hist[i + 1] ELSE init_file

\* "X.Y.Z" with X, Y and Z non-negative integers
IsVersion(payload) ==
    LET f == Split(payload, ".")
    IN  Len(f) = 3 /\ \A k \in 1..3 : AllDigits(f[k])

\* the declaration of the file holds a valid version
HoldsVersion(text) == get_version(text).err = "" /\ IsVersion(get_version(text).ret)

IsIncrement(i) ==
    i <= Len(calls) /\ calls[i].op = "set_version" /\ calls[i].arg = Increment

IsGet(i) == i <= Len(calls) /\ calls[i].op = "get_version"

\* call c returned old with its patch component n higher and nothing else changed
Bumped(old, c, n) ==
    /\ c.err = ""
    /\ LET a == Split(old, ".")
           b == Split(c.ret, ".")
       IN  /\ Len(b) = 3
           /\ b[1] = a[1]
           /\ b[2] = a[2]
           /\ AllDigits(b[3])
           /\ NatOfDigits(b[3]) = NatOfDigits(a[3]) + n

\* C3: on an init file whose declaration holds a valid version X.Y.Z,
\* set_version("increment") succeeds and a get_version() right after it returns
\* X.Y.(Z+1); after two increments in a row it returns X.Y.(Z+2).
C3_IncrementThenGet ==
    \A i \in 1..Len(calls) :
        (IsIncrement(i) /\ init_path # <<>> /\ HoldsVersion(hist[i])) =>
            /\ calls[i].err = ""
            /\ IsGet(i + 1) => Bumped(get_version(hist[i]).ret, calls[i + 1], 1)
            /\ (IsIncrement(i + 1) /\ IsGet(i + 2)) =>
                    Bumped(get_version(hist[i]).ret, calls[i + 2], 2)

\* two increments of 0.01.99 and a get_version that returns 0.01.101
C3_Witness ==
    /\ Len(calls) = 3
    /\ IsIncrement(1) /\ IsIncrement(2) /\ IsGet(3)
    /\ get_version(hist[1]).ret = V0199
    /\ calls[3].ret = <<"0", ".", "0", "1", ".", "1", "0", "1">>

\* lines o and n are the same but for the text between one pair of quote characters q
SameButPayload(o, n) ==
    \E q \in {DQ, SQ} :
        LET a == IndexOf(o, q)
        IN  /\ a > 0
            /\ Len(n) >= a
            /\ TakeFirst(n, a) = TakeFirst(o, a)
            /\ LET ro == DropFirst(o, a)
                   rn == DropFirst(n, a)
                   b == IndexOf(ro, q)
               IN  /\ b > 0
                   /\ \E c \in 1..Len(rn) : rn[c] = q /\ DropFirst(rn, c) = DropFirst(ro, b)

\* C4: a successful set_version leaves the number of lines and every line but
\* the first declaration line as they were, and in that line changes only the
\* text between the quote characters, which stay the ones the line had.
C4_OnlyPayloadChanges ==
    \A i \in 1..Len(calls) :
        (calls[i].op = "set_version" /\ calls[i].err = "") =>
            LET old == ReadLines(hist[i])
                new == ReadLines(TextAfter(i))
            IN  /\ Len(new) = Len(old)
                /\ \E k \in 1..Len(old) :
                      /\ StartsWith(old[k], Prefix)
                      /\ \A m \in 1..(k - 1) : ~StartsWith(old[m], Prefix)
                      /\ \A m \in 1..Len(old) : m # k => new[m] = old[m]
                      /\ SameButPayload(old[k], new[k])

\* '1.2.3' set to '2.0.0' between a comment and a second declaration
C4_Witness ==
    /\ Len(calls) = 1
    /\ calls[1].op = "set_version" /\ calls[1].arg = V200 /\ calls[1].err = ""
    /\ hist[1] = Concat(<<<<"#", " ", "d", NL>>, DeclLine(SQ, V123, <<>>), DeclLine(DQ, V777, <<>>)>>)
    /\ init_file = Concat(<<<<"#", " ", "d", NL>>, DeclLine(SQ, V200, <<>>), DeclLine(DQ, V777, <<>>)>>)

NoDeclaration(text) ==
    \A k \in 1..Len(ReadLines(text)) : ~StartsWith(ReadLines(text)[k], Prefix)

\* the declaration's third segment holds no digit at all
NonNumericPatch(text) ==
    /\ get_version(text).err = ""
    /\ LET f == Split(get_version(text).ret, ".")
       IN  Len(f) >= 3 /\ \A k \in 1..Len(f[3]) : f[3][k] \notin Digit

\* C5: a set_version that fails leaves the init file exactly as it was; it fails
\* with ValueError when no line is a declaration and when "increment" meets a
\* non-numeric patch segment.
C5_FailureLeavesFile ==
    \A i \in 1..Len(calls) :
        calls[i].op = "set_version" =>
            /\ calls[i].err # "" => TextAfter(i) = hist[i]
            /\ (init_path # <<>> /\ NoDeclaration(hist[i])) => calls[i].err = "ValueError"
            /\ (init_path # <<>> /\ IsIncrement(i) /\ NonNumericPatch(hist[i])) =>
                    calls[i].err = "ValueError"

\* an increment of "1.2.b" has failed, and one on a file without declaration
C5_Witness ==
    /\ Len(calls) = 2
    /\ IsIncrement(1) /\ calls[1].err = "ValueError" /\ NonNumericPatch(hist[1])
    /\ calls[2].op = "set_version" /\ calls[2].err = "ValueError"
    /\ init_file # <<>> /\ init_file = hist[1]

-----------------------------------------------------------------------------
(* Properties of find_path (SpecFind) *)

\* the folder call c searched, <<>> when there is none
FolderOf(c) == IF c.folder # <<>> THEN c.folder ELSE root_path

\* the depth of path p below the folder of call c
DepthOf(c, p) == Len(p) - Len(FolderOf(c)) - 1

\* the entries named c.file below the folder of c with no excluded component,
\* at any depth
AcceptedMatches(c) ==
    {p \in Nodes(tree) :
        /\ Len(p) > Len(FolderOf(c))
        /\ \A k \in 1..Len(FolderOf(c)) : p[k] = FolderOf(c)[k]
        /\ p[Len(p)] = c.file
        /\ \A k \in 1..Len(p) : p[k] \notin c.exclude}

\* those within the depth bound
AcceptedWithin(c) == {p \in AcceptedMatches(c) : DepthOf(c, p) < c.levels}

IsFind(c) == c.op = "find_path" /\ FolderOf(c) # <<>>

\* C6: when an accepted match lies within the depth bound, find_path returns a
\* path whose depth is the least depth of all accepted matches.
C6_ShallowestMatch ==
    \A n \in 1..Len(calls) :
        LET c == calls[n]
        IN  (IsFind(c) /\ AcceptedWithin(c) # {}) =>
                /\ c.err = ""
                /\ \A p \in AcceptedWithin(c) : DepthOf(c, c.path) <= DepthOf(c, p)

\* accepted matches at depths 1 and 3 (and an excluded one at depth 1): depth 1 is returned
C6_Witness ==
    /\ Len(calls) = 1 /\ IsFind(calls[1])
    /\ tree = {<<"proj", "build", InitName>>, <<"proj", "a", InitName>>,
               <<"proj", "a", "b", "c", InitName>>}
    /\ calls[1].exclude = {"build"}
    /\ calls[1].levels = 4
    /\ calls[1].path = <<"proj", "a", InitName>>

\* C7: the path find_path returns has no component equal to an exclusion
\* string, and when exactly one accepted match lies within the bound that match
\* is returned, whatever excluded matches lie above it.
C7_NeverExcluded ==
    \A n \in 1..Len(calls) :
        LET c == calls[n]
        IN  IsFind(c) =>
                /\ c.err = "" => \A k \in 1..Len(c.path) : c.path[k] \notin c.exclude
                /\ \A p \in AcceptedWithin(c) : AcceptedWithin(c) = {p} => c.path = p

\* a decoy at depth 1 under build and the target at depth 3: the target is returned
C7_Witness ==
    /\ Len(calls) = 1 /\ IsFind(calls[1])
    /\ tree = {<<"proj", "build", InitName>>, <<"proj", "a", "b", "c", InitName>>}
    /\ calls[1].exclude = DefaultExclude
    /\ calls[1].levels = 4
    /\ calls[1].err = ""
    /\ calls[1].path = <<"proj", "a", "b", "c", InitName>>

-----------------------------------------------------------------------------
(* Properties of set_root and set_paths (SpecPaths) *)

\* how often entry x occurs in sys.path
Occurrences(x) == Cardinality({i \in 1..Len(sys_path) : sys_path[i] = x})

\* the root a call asked for
RootAsked(c) == IF c.set_root_path = <<>> THEN Cwd ELSE PathOf(c.set_root_path)

\* C9: after any calls of set_root and set_paths, the Root Path is in sys.path,
\* every root set so far occurs in it exactly once, and a call that sets the
\* root the process already had leaves sys.path as it was.
C9_RootOnceInSysPath ==
    /\ root_path # <<>> => Occurrences(AsPosix(root_path)) = 1
    /\ \A r \in hist : Occurrences(AsPosix(r)) = 1
    /\ \A n \in 1..Len(calls) :
          RootAsked(calls[n]) = calls[n].root_before => sys_path = calls[n].sys_before

\* proj, dist/q and the cwd have been set, and proj ("./proj") has just been set again
C9_Witness ==
    /\ hist = {Proj, DistQ, Cwd}
    /\ Len(calls) = 1
    /\ calls[1].op = "set_root"
    /\ calls[1].set_root_path = <<".", "proj">>
    /\ calls[1].root_before = Proj
    /\ Len(sys_path) = 4

-----------------------------------------------------------------------------
(* Properties of sphinx_docs_regenerate (SpecDocs) *)

\* the loop of the call has ended and nothing after it has run
CleanupJustDone ==
    /\ calls # <<>>
    /\ calls[1].op = "sphinx_docs_regenerate"
    /\ calls[1].pc \in {"build", "apidoc"}
    /\ calls[1].procs = <<>>

-----------------------------------------------------------------------------
(* Properties of git_push within push_pipeline (SpecPipeline) *)

\* the steps of git_push that have run, and the git commands of git_push that succeeded
GitSteps == SelectSeq(pl.steps, LAMBDA x : x \in {"git_add", "git_commit", "git_tag", "git_push"})
GitDone == SelectSeq(pl.git, LAMBDA g : g.cmd \in {"add", "commit", "tag", "push"})
GitOrder == <<"git_add", "git_commit", "git_tag", "git_push">>
GitCommands == <<"add", "commit", "tag", "push">>

\* an action of git_push has failed: it is the last step of the run
GitFailed ==
    /\ GitSteps # <<>>
    /\ pl.err # ""
    /\ pl.steps[Len(pl.steps)] \in {"git_add", "git_commit", "git_tag", "git_push"}

\* C11: git_push runs add, commit, tag, push in this order, each only after all the
\* earlier ones succeeded; an action that fails raises, is not retried, no later
\* action (no push) runs, and what the earlier actions did stays done.
C11_GitPushOrder ==
    /\ Len(GitSteps) <= 4
    /\ GitSteps = TakeFirst(GitOrder, Len(GitSteps))
    /\ Len(GitDone) = Len(GitSteps) - (IF GitFailed THEN 1 ELSE 0)
    /\ \A i \in 1..Len(GitDone) : GitDone[i].cmd = GitCommands[i]
    /\ GitFailed => pl.pc = "raised"
    /\ (GitSteps # <<>> /\ pl.err # "") => GitFailed

\* add and commit have succeeded and the tag could not be created: nothing is pushed
C11_Witness ==
    /\ pl.pc = "raised"
    /\ pl.err = "GitCommandError"
    /\ GitSteps = <<"git_add", "git_commit", "git_tag">>
    /\ Len(GitDone) = 2
    /\ GitDone[1].cmd = "add" /\ GitDone[2].cmd = "commit"

\* C12: a tag created for the sentinel "__version__" is "v" and the version the init
\* file holds then, which after a set_version("increment") of X.Y.Z in the run is
\* X.Y.(Z+1); any other tag value is used as it is.
C12_TagFromVersion ==
    \A i \in 1..Len(pl.git) :
        pl.git[i].cmd = "tag" =>
            LET d == pl.dicts[pl.git_params]
                made == pl.git[i].tag
            IN  IF d.tag = TagSentinel
                THEN /\ get_version(init_file).err = ""
                     /\ made = <<"v">> \o get_version(init_file).ret
                     /\ (pl.version = Increment /\ HoldsVersion(hist[1].init_file)) =>
                            /\ Ran("set_version")
                            /\ Bumped(get_version(hist[1].init_file).ret,
                                      [err |-> "", ret |-> DropFirst(made, 1)], 1)
                ELSE made = d.tag

\* a run with version="increment" and the default git_params on a file holding 1.2.3
\* has created the tag v1.2.4
C12_Witness ==
    /\ pl.version = Increment
    /\ pl.git_params = "default"
    /\ pl.cli = NoOverrides
    /\ hist # <<>>
    /\ get_version(hist[1].init_file).ret = V123
    /\ \E i \in 1..Len(pl.git) :
          pl.git[i].cmd = "tag" /\ pl.git[i].tag = <<"v", "1", ".", "2", ".", "4">>

-----------------------------------------------------------------------------
(* Properties of run_gui (SpecGui) *)

\* run_gui has returned or has raised to its caller
GuiEnded == calls # <<>> /\ calls[1].op = "run_gui" /\ calls[1].pc \in {"returned", "propagated"}

\* C13: when the asset directory resolved by run_gui does not exist, run_gui raises
\* the FileNotFoundError "Web files not found" to its caller and no eel.start is called.
C13_NotFoundSurfaced ==
    (GuiEnded /\ calls[1].exists = "no") =>
        /\ calls[1].pc = "propagated"
        /\ calls[1].err = "FileNotFoundError"
        /\ calls[1].attempts = <<>>

\* C14: at most two eel.start calls are made; an OSError of the first one is followed
\* by exactly one more, in mode edge; and no exception but the not-found error of
\* the assets leaves run_gui: every other one is logged and run_gui returns.
C14_RetryOnceElseSwallow ==
    (calls # <<>> /\ calls[1].op = "run_gui") =>
        LET c == calls[1]
        IN  /\ Len(c.attempts) <= 2
            /\ (GuiEnded /\ c.attempts # <<>> /\ c.attempts[1].mode # "edge"
                    /\ c.attempts[1].outcome = "OSError") =>
                   /\ Len(c.attempts) = 2
                   /\ c.attempts[2].mode = "edge"
            /\ c.pc = "propagated" => c.err = "FileNotFoundError"
            /\ (c.pc = "returned" /\ c.err # "") => c.logged

\* C15: when the resolved asset directory exists and eel.init takes its arguments,
\* run_gui calls eel.start on that directory, in development and in production mode;
\* devel, when not passed, is false exactly when the environment variable is "production".
C15_ReachesStart ==
    (calls # <<>> /\ calls[1].op = "run_gui") =>
        LET c == calls[1]
        IN  /\ (GuiEnded /\ c.exists = "yes" /\ c.err # "TypeError") =>
                   /\ c.attempts # <<>>
                   /\ c.attempts[1].directory = c.gui_path
            /\ c.devel_arg = "None" => (~c.devel <=> c.env = "production")

-----------------------------------------------------------------------------
(* The version over sequences of set_version calls (SpecVersion) *)

\* every set_version call so far has succeeded
SetVersionsSucceeded ==
    \A i \in 1..Len(calls) : calls[i].op = "set_version" => calls[i].err = ""

\* every explicit value passed so far is itself "X.Y.Z"
ExplicitValuesValid ==
    \A i \in 1..Len(calls) :
        (calls[i].op = "set_version" /\ calls[i].arg # Increment) => IsVersion(calls[i].arg)

\* every increment so far has left major and minor as they were and added one to the patch
IncrementsPatchOnly ==
    \A i \in 1..Len(calls) :
        (IsIncrement(i) /\ calls[i].err = "" /\ HoldsVersion(hist[i])) =>
            Bumped(get_version(hist[i]).ret,
                   [err |-> "", ret |-> get_version(TextAfter(i)).ret], 1)

\* C16 as stated: from a file with a valid "X.Y.Z" declaration, after any successful
\* set_version calls, increments or explicit values, the version has three numeric
\* components and each increment changed the third only.
C16_AsStated ==
    (calls # <<>> /\ HoldsVersion(hist[1]) /\ SetVersionsSucceeded) =>
        /\ HoldsVersion(init_file)
        /\ IncrementsPatchOnly

\* C16, amended: the same when every explicit value passed is itself "X.Y.Z"; an
\* explicit value is written as it is, whatever its form.
C16_ThreeComponents ==
    (calls # <<>> /\ HoldsVersion(hist[1]) /\ SetVersionsSucceeded /\ ExplicitValuesValid) =>
        /\ HoldsVersion(init_file)
        /\ IncrementsPatchOnly

\* 1.2.3 set to 2.0.0 and incremented twice: the file holds 2.0.2
C16_Witness ==
    /\ Len(calls) = 3
    /\ calls[1].op = "set_version" /\ calls[1].arg = V200
    /\ IsIncrement(2) /\ IsIncrement(3)
    /\ SetVersionsSucceeded
    /\ get_version(hist[1]).ret = V123
    /\ get_version(init_file).ret = <<"2", ".", "0", ".", "2">>

-----------------------------------------------------------------------------
(* Properties of run_tests within push_pipeline (SpecPipeline) *)

\* C17: run_tests raises its RuntimeError "Pytest failed" exactly when pytest.main
\* returned 1; for every other exit code it returns and the run goes on.
C17_RaisesExactlyForOne ==
    (Ran("run_tests") /\ pl.steps[Len(pl.steps)] = "run_tests") =>
        IF pl.pytested = 1
        THEN pl.pc = "raised" /\ pl.err = "RuntimeError"
        ELSE pl.pc # "raised" /\ pl.err = ""

-----------------------------------------------------------------------------
(* Failures of sphinx_docs_regenerate (SpecDocs) *)

\* C18: a call made without sphinx raises ImportError, and a call made while Root
\* Path or App Path is unset, with or without docs_path, raises the paths error;
\* either way before any entry of docs/source is deleted and any subprocess is run.
C18_FailsFast ==
    (calls # <<>> /\ calls[1].op = "sphinx_docs_regenerate") =>
        LET c == calls[1]
        IN  /\ c.err = "ImportError" => (source_dir = hist[1] /\ c.procs = <<>>)
            /\ (root_path = <<>> \/ app_path = <<>>) =>
                   /\ c.pc = "raised"
                   /\ c.err \in {"ImportError", "NotADirectoryError"}
                   /\ source_dir = hist[1]
                   /\ c.procs = <<>>

-----------------------------------------------------------------------------
(* The git_params dicts over several push_pipeline calls (SpecPipeline) *)

\* C19: a push_pipeline call after the first finds the default git_params and the
\* caller's dict with their original values, whatever the command line merged in
\* before; and a merge changes only the entries given on the command line.
C19_GitParamsTransient ==
    /\ (pl.runs >= 2 /\ pl.pc # "idle") =>
          /\ hist[1].dicts["default"] = DefaultGitParams
          /\ hist[1].dicts["caller"] = CallerGitParams
    /\ (Ran("git_add") /\ pl.git_params # "empty") =>
          LET now == pl.dicts[pl.git_params]
              was == hist[1].dicts[pl.git_params]
          IN  /\ "commit_message" \notin pl.cli.given => now.commit_message = was.commit_message
              /\ "tag" \notin pl.cli.given => now.tag = was.tag
              /\ "tag_mesage" \notin pl.cli.given => now.tag_mesage = was.tag_mesage

-----------------------------------------------------------------------------
(* set_paths when the search fails (SpecPaths) *)

\* the last call was set_paths without an init path, and find_path raised
SetPathsFailed ==
    /\ calls # <<>>
    /\ calls[1].op = "set_paths"
    /\ calls[1].set_init_path = <<>>
    /\ calls[1].err = "FileNotFoundError"

\* C20: when set_paths without an init path fails in its search, Root Path is the
\* root asked for and is in sys.path, and Init Path and App Path are what they were
\* before the call; and in every state App Path is the parent of Init Path, or
\* both are unset.
C20_SetPathsNotAtomic ==
    /\ SetPathsFailed =>
          /\ root_path = RootAsked(calls[1])
          /\ Occurrences(AsPosix(root_path)) = 1
          /\ init_path = calls[1].init_before
          /\ app_path = calls[1].app_before
    /\ (calls # <<>> /\ calls[1].op = "set_paths" /\ calls[1].set_init_path = <<>>
            /\ calls[1].err # "") => calls[1].err = "FileNotFoundError"
    /\ IF init_path = <<>> THEN app_path = <<>> ELSE app_path = Parent(init_path)

\* set_paths("dist/q") has failed after a set_paths that found proj/pkg/__init__.py:
\* the root is dist/q, Init Path and App Path are still those of proj
C20_Witness ==
    /\ SetPathsFailed
    /\ calls[1].root_before = Proj
    /\ root_path = DistQ
    /\ init_path = ProjInit
    /\ app_path = Parent(ProjInit)
    /\ AsPosix(DistQ) \notin Range(calls[1].sys_before)

=============================================================================
